---- MODULE Spec2Model ----
(***************************************************************************)
(* The SSE <-> stdio bridge of remote/proxy.js as a state machine.         *)
(*                                                                         *)
(* Text is modelled as a sequence of one-character strings.  Raw input is  *)
(* a sequence of bytes: an ASCII byte is written as its character, and the *)
(* two bytes of the UTF-8 encoding of U+00E9 are written "C3" and "A9".    *)
(* Decoded text holds the characters "U+00E9" and "U+FFFD" for the decoded *)
(* character and for the replacement character.                            *)
(***************************************************************************)
EXTENDS Integers, Sequences, FiniteSets, TLC

VARIABLES
    pc,             \* "init" before the script runs, "running", "exited"
    argv,           \* process.argv[2]: [given |-> BOOLEAN, url |-> text]
    exitCode,       \* process exit status (-1 while the process runs)
    postUrl,        \* proxy.js `postUrl`
    inputBuffer,    \* proxy.js `inputBuffer`
    stdinScript,    \* the bytes the local peer writes to standard input
    stdinPos,       \* how many of them the 'data' events have delivered
    stdinEnded,     \* end-of-stream reached on standard input
    handlers,       \* suspended invocations of the 'data' handler
    posts,          \* every fetch(postUrl, {method:'POST'}) issued, in order
    stdout,         \* the writes to process.stdout, in order
    stderr,         \* the console.error lines: how often each was written
    ssePc,          \* connectSSE: "idle", "connecting", "streaming",
                    \*   "waiting" (retry timer armed), "stopped" (returned)
    sseScript,      \* the bytes the server sends on the current SSE response
    ssePos,         \* how many of them reader.read() has delivered
    sseBuffer,      \* connectSSE `sseBuffer`
    decoder,        \* bytes the TextDecoder holds back (stream: true)
    sseEvents,      \* the event blocks processed on the current connection
    sseCut,         \* a read boundary fell inside a "\n\n" delimiter
    gets,           \* number of fetch(sseUrl) calls so far
    sseErrors,      \* number of SSE failures so far
    lastEndpoint,   \* data of the newest endpoint event processed
    timers,         \* the delays of the setTimeout timers that are armed
    sseStatus,      \* status of the newest response to the SSE GET (0: none)
    sseMenu,        \* the SSE response bodies the remote endpoint may send
    respMenu,       \* the POST response bodies the remote endpoint may send
    errorBudget,    \* how often network and server make the listener fail
    calc            \* a tools/call request for 'calculate' and what the remote
                    \*   worker and the local server return for it

vars == <<pc, argv, exitCode, postUrl, inputBuffer, stdinScript, stdinPos,
          stdinEnded, handlers, posts, stdout, stderr, ssePc,
          sseScript, ssePos, sseBuffer, decoder, sseEvents, sseCut, gets,
          sseErrors, lastEndpoint, timers, sseStatus, sseMenu, respMenu,
          errorBudget, calc>>

(***************************************************************************)
(* Bounds of the environment.                                              *)
(***************************************************************************)
\* The network and the server make the SSE listener fail at most this often.
MaxSseErrors == 1

\* ... and at most this often where only the listener and its retries run.
MaxRetryErrors == 3

(***************************************************************************)
(* String primitives (JavaScript String methods).                          *)
(***************************************************************************)
NL == "\n"

\* String.prototype.startsWith
StartsWith(s, p) ==
    /\ Len(s) >= Len(p)
    /\ SubSeq(s, 1, Len(p)) = p

\* the regular expression /\/sse$/ matches
EndsWith(s, p) ==
    /\ Len(s) >= Len(p)
    /\ SubSeq(s, Len(s) - Len(p) + 1, Len(s)) = p

\* String.prototype.slice(n) with 0 <= n
Slice(s, n) == SubSeq(s, n + 1, Len(s))

\* String.prototype.indexOf('\n'), 1-based; 0 when there is none
IndexOfNl(s) ==
    LET hits == {i \in 1..Len(s) : s[i] = NL}
    IN  IF hits = {} THEN 0 ELSE CHOOSE i \in hits : \A j \in hits : i <= j

\* the characters String.prototype.trim() strips: the white space and the
\* line terminators of ECMAScript; a character outside ASCII is written as
\* its code point
WhiteSpace ==
    {" ", "\n", "\r", "\t", "\f", "U+000B", "U+00A0", "U+1680", "U+2000", "U+2001",
     "U+2002", "U+2003", "U+2004", "U+2005", "U+2006", "U+2007", "U+2008", "U+2009",
     "U+200A", "U+2028", "U+2029", "U+202F", "U+205F", "U+3000", "U+FEFF"}

\* String.prototype.trim()
Trim(s) ==
    IF \A i \in 1..Len(s) : s[i] \in WhiteSpace THEN <<>>
    ELSE LET lo == CHOOSE i \in 1..Len(s) :
                       s[i] \notin WhiteSpace /\ \A j \in 1..(i - 1) : s[j] \in WhiteSpace
             hi == CHOOSE i \in 1..Len(s) :
                       s[i] \notin WhiteSpace /\ \A j \in (i + 1)..Len(s) : s[j] \in WhiteSpace
         IN  SubSeq(s, lo, hi)

\* String.prototype.split('\n'): always at least one piece
RECURSIVE SplitNl(_)
SplitNl(s) ==
    LET i == IndexOfNl(s)
    IN  IF i = 0 THEN <<s>>
        ELSE <<SubSeq(s, 1, i - 1)>> \o SplitNl(Slice(s, i))

\* index of the first "\n\n" in s, 1-based; 0 when there is none
IndexOfNlNl(s) ==
    LET hits == {i \in 1..(Len(s) - 1) : s[i] = NL /\ s[i + 1] = NL}
    IN  IF hits = {} THEN 0 ELSE CHOOSE i \in hits : \A j \in hits : i <= j

\* String.prototype.split('\n\n'): matches are taken left to right and do
\* not overlap; the last piece is what follows the last match
RECURSIVE SplitNlNl(_)
SplitNlNl(s) ==
    LET i == IndexOfNlNl(s)
    IN  IF i = 0 THEN <<s>>
        ELSE <<SubSeq(s, 1, i - 1)>> \o SplitNlNl(Slice(s, i + 1))

(***************************************************************************)
(* UTF-8 decoding.                                                         *)
(***************************************************************************)
LeadByte == "C3"
ContByte == "A9"
DecodedChar == "U+00E9"
Replacement == "U+FFFD"

\* the decoding of one byte that is not part of a complete sequence
DecodeByte(b) == IF b \in {LeadByte, ContByte} THEN Replacement ELSE b

\* Buffer.prototype.toString(): the chunk is decoded on its own; a sequence
\* that the chunk cuts short, and a continuation byte with no lead byte,
\* decode to U+FFFD.  The bytes are decoded in two halves, cut where no
\* lead byte is parted from its continuation byte.
RECURSIVE toString(_)
toString(bytes) ==
    IF \A i \in 1..Len(bytes) : bytes[i] \notin {LeadByte, ContByte} THEN bytes
    ELSE IF Len(bytes) = 1 THEN <<DecodeByte(bytes[1])>>
    ELSE IF bytes = <<LeadByte, ContByte>> THEN <<DecodedChar>>
    ELSE LET half == Len(bytes) \div 2
             cut == IF bytes[half] = LeadByte /\ bytes[half + 1] = ContByte
                    THEN half + 1 ELSE half
         IN  toString(SubSeq(bytes, 1, cut)) \o toString(SubSeq(bytes, cut + 1, Len(bytes)))

\* TextDecoder.decode(value, {stream: true}): a sequence the chunk cuts
\* short is held back and completed by the next chunk
Decode(held, value) ==
    LET all == held \o value
    IN  IF all # <<>> /\ all[Len(all)] = LeadByte
        THEN [text |-> toString(SubSeq(all, 1, Len(all) - 1)), held |-> <<LeadByte>>]
        ELSE [text |-> toString(all), held |-> <<>>]

(***************************************************************************)
(* JSON.parse, for the JSON texts built from objects, arrays, strings      *)
(* without escapes, unsigned integers and the three literals.              *)
(***************************************************************************)
JsonWs == {" ", "\t", "\r", "\n"}
Digits == {"0", "1", "2", "3", "4", "5", "6", "7", "8", "9"}
Quote == "\""

S_null == <<"n", "u", "l", "l">>
S_true == <<"t", "r", "u", "e">>
S_false == <<"f", "a", "l", "s", "e">>
S_method == <<"m", "e", "t", "h", "o", "d">>

\* the value of an object's `method` property: absent, a string, or other
NoMethod == [has |-> FALSE, isStr |-> FALSE, str |-> <<>>]

JsonFail == [ok |-> FALSE, next |-> 0, kind |-> "", str |-> <<>>, method |-> NoMethod]

JsonOk(next, kind, str, method) ==
    [ok |-> TRUE, next |-> next, kind |-> kind, str |-> str, method |-> method]

\* first index at or after i that holds no JSON white space
SkipWs(s, i) ==
    LET stop == {j \in i..Len(s) : s[j] \notin JsonWs}
    IN  IF stop = {} THEN Len(s) + 1 ELSE CHOOSE j \in stop : \A k \in stop : j <= k

HasAt(s, i, p) ==
    /\ i + Len(p) - 1 <= Len(s)
    /\ SubSeq(s, i, i + Len(p) - 1) = p

\* a string literal starting at the quote s[i]
ParseString(s, i) ==
    LET close == {j \in (i + 1)..Len(s) : s[j] = Quote}
    IN  IF close = {} THEN JsonFail
        ELSE LET j == CHOOSE j \in close : \A k \in close : j <= k
                 body == SubSeq(s, i + 1, j - 1)
                 \* a raw control character, U+0000 to U+001F, ends the parse,
                 \* and so does an escape, which this parser does not read
                 bad == {"\\", "\n", "\r", "\t", "\f",
                         "U+0000", "U+0001", "U+0002", "U+0003", "U+0004", "U+0005", "U+0006", "U+0007",
                         "U+0008", "U+0009", "U+000A", "U+000B", "U+000C", "U+000D", "U+000E", "U+000F",
                         "U+0010", "U+0011", "U+0012", "U+0013", "U+0014", "U+0015", "U+0016", "U+0017",
                         "U+0018", "U+0019", "U+001A", "U+001B", "U+001C", "U+001D", "U+001E", "U+001F"}
             IN  IF \E k \in 1..Len(body) : body[k] \in bad
                 THEN JsonFail
                 ELSE JsonOk(j + 1, "string", body, NoMethod)

\* an unsigned integer starting at the digit s[i]
ParseNumber(s, i) ==
    LET stop == {j \in i..Len(s) : s[j] \notin Digits}
        j == IF stop = {} THEN Len(s) + 1 ELSE CHOOSE j \in stop : \A k \in stop : j <= k
    IN  IF s[i] = "0" /\ j > i + 1 THEN JsonFail
        ELSE JsonOk(j, "number", <<>>, NoMethod)

RECURSIVE ParseValue(_, _)
RECURSIVE ParseMembers(_, _, _)
RECURSIVE ParseElements(_, _)

\* the members of an object from the key at s[i] on; m is the `method`
\* property found so far (a repeated key overwrites the earlier one)
ParseMembers(s, i, m) ==
    IF i > Len(s) \/ s[i] # Quote THEN JsonFail
    ELSE LET key == ParseString(s, i)
         IN  IF ~key.ok THEN JsonFail
             ELSE LET c == SkipWs(s, key.next)
                  IN  IF c > Len(s) \/ s[c] # ":" THEN JsonFail
                      ELSE LET v == ParseValue(s, SkipWs(s, c + 1))
                           IN  IF ~v.ok THEN JsonFail
                               ELSE LET m2 == IF key.str = S_method
                                              THEN [has |-> TRUE,
                                                    isStr |-> v.kind = "string",
                                                    str |-> v.str]
                                              ELSE m
                                        e == SkipWs(s, v.next)
                                    IN  IF e > Len(s) THEN JsonFail
                                        ELSE IF s[e] = "}"
                                             THEN JsonOk(e + 1, "object", <<>>, m2)
                                        ELSE IF s[e] = ","
                                             THEN ParseMembers(s, SkipWs(s, e + 1), m2)
                                        ELSE JsonFail

\* the elements of an array from the value at s[i] on
ParseElements(s, i) ==
    LET v == ParseValue(s, i)
    IN  IF ~v.ok THEN JsonFail
        ELSE LET e == SkipWs(s, v.next)
             IN  IF e > Len(s) THEN JsonFail
                 ELSE IF s[e] = "]" THEN JsonOk(e + 1, "array", <<>>, NoMethod)
                 ELSE IF s[e] = "," THEN ParseElements(s, SkipWs(s, e + 1))
                 ELSE JsonFail

\* the JSON value starting at s[i]
ParseValue(s, i) ==
    IF i > Len(s) THEN JsonFail
    ELSE IF s[i] = "{"
         THEN LET j == SkipWs(s, i + 1)
              IN  IF j <= Len(s) /\ s[j] = "}"
                  THEN JsonOk(j + 1, "object", <<>>, NoMethod)
                  ELSE ParseMembers(s, j, NoMethod)
    ELSE IF s[i] = "["
         THEN LET j == SkipWs(s, i + 1)
              IN  IF j <= Len(s) /\ s[j] = "]"
                  THEN JsonOk(j + 1, "array", <<>>, NoMethod)
                  ELSE ParseElements(s, j)
    ELSE IF s[i] = Quote THEN ParseString(s, i)
    ELSE IF s[i] \in Digits THEN ParseNumber(s, i)
    ELSE IF HasAt(s, i, S_null) THEN JsonOk(i + 4, "null", <<>>, NoMethod)
    ELSE IF HasAt(s, i, S_true) THEN JsonOk(i + 4, "boolean", <<>>, NoMethod)
    ELSE IF HasAt(s, i, S_false) THEN JsonOk(i + 5, "boolean", <<>>, NoMethod)
    ELSE JsonFail

\* JSON.parse(text): one value, white space around it, nothing else
JsonParse(text) ==
    LET v == ParseValue(text, SkipWs(text, 1))
    IN  IF v.ok /\ SkipWs(text, v.next) = Len(text) + 1 THEN v ELSE JsonFail

(***************************************************************************)
(* URLs.  The URLs of the model are lower-case http URLs without user      *)
(* information and without the default port, which `new URL` leaves as     *)
(* they are.                                                               *)
(***************************************************************************)
S_http == <<"h", "t", "t", "p">>
S_httpScheme == <<"h", "t", "t", "p", ":", "/", "/">>
S_sse == <<"/", "s", "s", "e">>
S_mcp == <<"/", "m", "c", "p">>

\* the end of the authority of an http URL: the first "/", "?" or "#" after
\* the scheme, or the end of the text
AuthorityEnd(url) ==
    LET stop == {j \in 8..Len(url) : url[j] \in {"/", "?", "#"}}
    IN  IF stop = {} THEN Len(url) + 1 ELSE CHOOSE j \in stop : \A k \in stop : j <= k

\* fetch and `new URL` accept the text as an absolute http URL
IsHttpUrl(url) ==
    /\ StartsWith(url, S_httpScheme)
    /\ AuthorityEnd(url) > 8

\* new URL(url).origin
Origin(url) == SubSeq(url, 1, AuthorityEnd(url) - 1)

\* sseUrl.replace(/\/sse$/, '/mcp')
ReplaceSseSuffix(url) ==
    IF EndsWith(url, S_sse)
    THEN SubSeq(url, 1, Len(url) - Len(S_sse)) \o S_mcp
    ELSE url

(***************************************************************************)
(* The Inbound Listener's classification of one event block                *)
(* (proxy.js lines 100-146).                                               *)
(***************************************************************************)
S_event == <<"e", "v", "e", "n", "t", ":", " ">>
S_data == <<"d", "a", "t", "a", ":", " ">>
S_endpoint == <<"e", "n", "d", "p", "o", "i", "n", "t">>
S_connectionReady ==
    <<"c", "o", "n", "n", "e", "c", "t", "i", "o", "n", "/", "r", "e", "a", "d", "y">>
S_serverCapabilities ==
    <<"s", "e", "r", "v", "e", "r", "/", "c", "a", "p", "a", "b", "i", "l", "i", "t", "i", "e", "s">>

\* the configured SSE URL, process.argv[2]
sseUrl == argv.url

\* the data is taken as it is, a path too
EndpointTargetVerbatim(dataStr) == dataStr

\* data that is no URL and no path is taken as a path all the same
EndpointTargetAsPath(dataStr) ==
    IF StartsWith(dataStr, S_http) THEN dataStr
    ELSE IF StartsWith(dataStr, <<"/">>) THEN Origin(sseUrl) \o dataStr
    ELSE Origin(sseUrl) \o <<"/">> \o dataStr

\* the value assigned to postUrl for the data of an endpoint event
EndpointTarget(dataStr) ==
    IF StartsWith(dataStr, S_http) THEN dataStr
    ELSE IF StartsWith(dataStr, <<"/">>) THEN Origin(sseUrl) \o dataStr
    ELSE dataStr

\* `new URL(sseUrl)` throws inside the endpoint branch
EndpointThrows(dataStr) ==
    /\ ~StartsWith(dataStr, S_http)
    /\ StartsWith(dataStr, <<"/">>)
    /\ ~IsHttpUrl(sseUrl)

\* only the first of the two names is tested
IsSuppressedReadyOnly(dataStr) ==
    LET msg == JsonParse(dataStr)
    IN  /\ msg.ok
        /\ msg.kind = "object"
        /\ msg.method.has
        /\ msg.method.isStr
        /\ msg.method.str = S_connectionReady

\* the notification filter: JSON.parse succeeds and msg.method is one of
\* the two suppressed names
IsSuppressed(dataStr) ==
    LET msg == JsonParse(dataStr)
    IN  /\ msg.ok
        /\ msg.kind = "object"
        /\ msg.method.has
        /\ msg.method.isStr
        /\ msg.method.str \in {S_connectionReady, S_serverCapabilities}

\* a comment line is forwarded like a data line
ProcessLineForwardsComment(line, st) ==
    IF StartsWith(line, S_event)
    THEN IF Trim(Slice(line, 7)) = S_endpoint
         THEN [st EXCEPT !.isEndpointEvent = TRUE]
         ELSE st
    ELSE IF StartsWith(line, S_data) \/ StartsWith(line, <<":", " ">>)
    THEN LET dataStr == IF StartsWith(line, S_data) THEN Slice(line, 6) ELSE Slice(line, 2)
         IN  IF st.isEndpointEvent /\ ~EndpointThrows(dataStr)
             THEN [st EXCEPT !.postUrl = EndpointTarget(dataStr),
                             !.isEndpointEvent = FALSE]
             ELSE IF IsSuppressed(dataStr)
             THEN st
             ELSE [st EXCEPT !.stdout = Append(@, dataStr \o <<NL>>)]
    ELSE st

\* the body of `for (const line of lines)` for one line; st holds the
\* loop's variables: isEndpointEvent, postUrl and the stdout writes
ProcessLine(line, st) ==
    IF StartsWith(line, S_event)
    THEN IF Trim(Slice(line, 7)) = S_endpoint
         THEN [st EXCEPT !.isEndpointEvent = TRUE]
         ELSE st
    ELSE IF StartsWith(line, S_data)
    THEN LET dataStr == Slice(line, 6)
         IN  IF st.isEndpointEvent /\ ~EndpointThrows(dataStr)
             THEN [st EXCEPT !.postUrl = EndpointTarget(dataStr),
                             !.isEndpointEvent = FALSE]
             ELSE IF IsSuppressed(dataStr)
             THEN st
             ELSE [st EXCEPT !.stdout = Append(@, dataStr \o <<NL>>)]
    ELSE st

RECURSIVE ProcessLines(_, _)
ProcessLines(lines, st) ==
    IF lines = <<>> THEN st
    ELSE ProcessLines(Tail(lines), ProcessLine(Head(lines), st))

\* the body of `for (const event of events)`
RECURSIVE ProcessEvents(_, _)
ProcessEvents(events, st) ==
    IF events = <<>> THEN st
    ELSE ProcessEvents(Tail(events),
                       ProcessLines(SplitNl(Head(events)),
                                    [st EXCEPT !.isEndpointEvent = FALSE]))

(***************************************************************************)
(* The Line Framer and Outbound Sender (proxy.js lines 37-70).             *)
(***************************************************************************)
\* the while loop from its head to the next non-blank line: what is left of
\* the buffer, and the line to POST if there is one
RECURSIVE NextLine(_)
NextLine(buf) ==
    LET newlineIndex == IndexOfNl(buf)
    IN  IF newlineIndex = 0
        THEN [buf |-> buf, found |-> FALSE, line |-> <<>>]
        ELSE LET line == SubSeq(buf, 1, newlineIndex - 1)
                 rest == Slice(buf, newlineIndex)
             IN  IF Trim(line) # <<>>
                 THEN [buf |-> rest, found |-> TRUE, line |-> line]
                 ELSE NextLine(rest)

\* the line is not taken out of the buffer while other invocations wait
RunLoopKeepsLine(buf, others) ==
    LET r == NextLine(buf)
    IN  /\ inputBuffer' = IF others = {} THEN r.buf ELSE buf
        /\ IF r.found
           THEN /\ posts' = Append(posts, [url |-> postUrl, body |-> r.line])
                /\ handlers' = others \cup
                       {[post |-> Len(posts) + 1, phase |-> "fetch",
                         resp |-> [status |-> 0, body |-> <<>>]]}
           ELSE /\ posts' = posts
                /\ handlers' = others

\* the loop does not await: it sends the next line too while the first
\* POST is in flight
RunLoopNoAwait(buf, others) ==
    LET r == NextLine(buf)
        q == NextLine(r.buf)
        sent == IF ~r.found THEN <<>>
                ELSE IF ~q.found THEN <<r.line>>
                ELSE <<r.line, q.line>>
    IN  /\ inputBuffer' = IF r.found THEN q.buf ELSE r.buf
        /\ posts' = posts \o [i \in 1..Len(sent) |-> [url |-> postUrl, body |-> sent[i]]]
        /\ handlers' = others \cup
               {[post |-> Len(posts) + i, phase |-> "fetch",
                 resp |-> [status |-> 0, body |-> <<>>]] : i \in 1..Len(sent)}

\* a handler invocation runs its loop on buf until it awaits the fetch of
\* the next line or returns; others are the other suspended invocations
RunLoop(buf, others) ==
    LET r == NextLine(buf)
    IN  /\ inputBuffer' = r.buf
        /\ IF r.found
           THEN /\ posts' = Append(posts, [url |-> postUrl, body |-> r.line])
                /\ handlers' = others \cup
                       {[post |-> Len(posts) + 1, phase |-> "fetch",
                         resp |-> [status |-> 0, body |-> <<>>]]}
           ELSE /\ posts' = posts
                /\ handlers' = others

sseVars == <<ssePc, sseScript, ssePos, sseBuffer, decoder, sseEvents, sseCut,
             gets, sseErrors, lastEndpoint, timers, sseStatus>>
stdinVars == <<stdinPos, stdinEnded>>
\* what no step of the bridge changes
envVars == <<argv, stdinScript, sseMenu, respMenu, errorBudget, calc>>

\* the chunk is only kept while no SSE response is open
StdinDataWhenConnected(n) ==
    /\ pc = "running"
    /\ ~stdinEnded
    /\ n \in 1..(Len(stdinScript) - stdinPos)
    /\ LET chunk == SubSeq(stdinScript, stdinPos + 1, stdinPos + n)
       IN  IF ssePc = "streaming"
           THEN RunLoop(inputBuffer \o toString(chunk), handlers)
           ELSE /\ inputBuffer' = inputBuffer \o toString(chunk)
                /\ UNCHANGED <<posts, handlers>>
    /\ stdinPos' = stdinPos + n
    /\ UNCHANGED <<pc, exitCode, postUrl, stdinEnded, stdout, stderr, sseVars, envVars>>

\* stdin.on('data'): one chunk of n bytes arrives
StdinData(n) ==
    /\ pc = "running"
    /\ ~stdinEnded
    /\ n \in 1..(Len(stdinScript) - stdinPos)
    /\ LET chunk == SubSeq(stdinScript, stdinPos + 1, stdinPos + n)
       IN  RunLoop(inputBuffer \o toString(chunk), handlers)
    /\ stdinPos' = stdinPos + n
    /\ UNCHANGED <<pc, exitCode, postUrl, stdinEnded, stdout, stderr, sseVars, envVars>>

\* end-of-stream on standard input: the script registers no 'end' handler
StdinEnd ==
    /\ pc = "running"
    /\ ~stdinEnded
    /\ stdinPos = Len(stdinScript)
    /\ stdinEnded' = TRUE
    /\ UNCHANGED <<pc, exitCode, postUrl, inputBuffer, stdinPos, handlers,
                   posts, stdout, stderr, sseVars, envVars>>

\* `await fetch(postUrl, ...)` resolves with the response resp
FetchResolve(h, resp) ==
    /\ pc = "running"
    /\ h \in handlers
    /\ h.phase = "fetch"
    /\ IsHttpUrl(posts[h.post].url)
    /\ resp \in respMenu
    /\ handlers' = (handlers \ {h}) \cup {[h EXCEPT !.phase = "text", !.resp = resp]}
    /\ UNCHANGED <<pc, exitCode, postUrl, inputBuffer, stdinVars, posts, stdout, stderr,
                   sseVars, envVars>>

\* the body is also logged, to standard output
RelayWriteLogged(text) ==
    LET logged == Append(stdout, <<"[Proxy] Response body: ">> \o text \o <<NL>>)
    IN  IF text # <<>> /\ Trim(text) # <<>>
        THEN Append(logged, text \o <<NL>>)
        ELSE logged

\* the write of lines 61-63
RelayWrite(text) ==
    IF text # <<>> /\ Trim(text) # <<>>
    THEN Append(stdout, text \o <<NL>>)
    ELSE stdout

\* the body of a response with an error status is dropped
TextResolveOkOnly(h) ==
    /\ pc = "running"
    /\ h \in handlers
    /\ h.phase = "text"
    /\ stdout' = IF h.resp.status \in 200..299 THEN RelayWrite(h.resp.body) ELSE stdout
    /\ RunLoop(inputBuffer, handlers \ {h})
    /\ UNCHANGED <<pc, exitCode, postUrl, stdinVars, stderr, sseVars, envVars>>

\* a body is held back while an earlier POST is in flight
TextResolveInOrder(h) ==
    /\ pc = "running"
    /\ h \in handlers
    /\ h.phase = "text"
    /\ \A g \in handlers : g.post >= h.post
    /\ stdout' = RelayWrite(h.resp.body)
    /\ RunLoop(inputBuffer, handlers \ {h})
    /\ UNCHANGED <<pc, exitCode, postUrl, stdinVars, stderr, sseVars, envVars>>

\* `await response.text()` resolves: relay the body, go on with the loop
TextResolve(h) ==
    /\ pc = "running"
    /\ h \in handlers
    /\ h.phase = "text"
    /\ stdout' = RelayWrite(h.resp.body)
    /\ RunLoop(inputBuffer, handlers \ {h})
    /\ UNCHANGED <<pc, exitCode, postUrl, stdinVars, stderr, sseVars, envVars>>

D_forward == "[Proxy] Error forwarding request"
D_usage == "Usage: node proxy.js <sse-url>"
D_sseNetwork == "[Proxy] SSE Error: fetch failed"
D_sseStatus == "[Proxy] SSE Error: SSE connection failed: 503"
D_sseRead == "[Proxy] SSE Error: terminated"
Diagnostics == {D_forward, D_usage, D_sseNetwork, D_sseStatus, D_sseRead}

\* console.error(line)
ConsoleError(line) == [stderr EXCEPT ![line] = @ + 1]

\* the catch block of lines 64-67
ForwardError == ConsoleError(D_forward)

\* the error ends the handler: the lines left in the buffer wait
PostFailAborts(h) ==
    /\ pc = "running"
    /\ h \in handlers
    /\ stderr' = ForwardError
    /\ handlers' = handlers \ {h}
    /\ UNCHANGED <<pc, exitCode, postUrl, inputBuffer, posts, stdinVars, stdout, sseVars,
                   envVars>>

\* the line of the failed POST is sent once more
PostFailRetries(h) ==
    /\ pc = "running"
    /\ h \in handlers
    /\ stderr' = ForwardError
    /\ posts' = Append(posts, [url |-> postUrl, body |-> posts[h.post].body])
    /\ handlers' = (handlers \ {h}) \cup
           {[post |-> Len(posts) + 1, phase |-> "fetch",
             resp |-> [status |-> 0, body |-> <<>>]]}
    /\ UNCHANGED <<pc, exitCode, postUrl, inputBuffer, stdinVars, stdout, sseVars, envVars>>

\* the fetch or the read of the body throws: log, go on with the loop
PostFail(h) ==
    /\ pc = "running"
    /\ h \in handlers
    /\ stderr' = ForwardError
    /\ RunLoop(inputBuffer, handlers \ {h})
    /\ UNCHANGED <<pc, exitCode, postUrl, stdinVars, stdout, sseVars, envVars>>

(***************************************************************************)
(* The Inbound Listener and its retry (proxy.js lines 73-154).             *)
(***************************************************************************)
NoEndpoint == [seen |-> FALSE, data |-> <<>>]

IsEndpointLine(line) ==
    /\ StartsWith(line, S_event)
    /\ Trim(Slice(line, 7)) = S_endpoint

\* the data of the newest endpoint event of a block: the last data line
\* that the lines' loop handles in its endpoint branch.  The flag of line
\* 102 is set by every line that names the event endpoint, and cleared by a
\* data line handled in the branch unless `new URL(sseUrl)` throws there
EndpointDataOf(block) ==
    LET RECURSIVE Taken(_, _, _)
        Taken(lines, isEndpointEvent, ep) ==
            IF lines = <<>> THEN ep
            ELSE LET line == Head(lines)
                 IN  IF StartsWith(line, S_event)
                     THEN Taken(Tail(lines),
                                isEndpointEvent \/ IsEndpointLine(line), ep)
                     ELSE IF StartsWith(line, S_data) /\ isEndpointEvent
                     THEN Taken(Tail(lines), EndpointThrows(Slice(line, 6)),
                                [seen |-> TRUE, data |-> Slice(line, 6)])
                     ELSE Taken(Tail(lines), isEndpointEvent, ep)
    IN  Taken(SplitNl(block), FALSE, NoEndpoint)

\* the newest endpoint data after the blocks, ep being the newest before
RECURSIVE NewestEndpoint(_, _)
NewestEndpoint(blocks, ep) ==
    IF blocks = <<>> THEN ep
    ELSE NewestEndpoint(Tail(blocks),
                        IF EndpointDataOf(Head(blocks)).seen
                        THEN EndpointDataOf(Head(blocks)) ELSE ep)

\* the buffer of connectSSE outlives the call
DropConnectionKeepsBuffer ==
    /\ sseScript' = <<>>
    /\ ssePos' = 0
    /\ sseBuffer' = sseBuffer
    /\ decoder' = <<>>
    /\ sseEvents' = <<>>
    /\ sseCut' = FALSE

\* the locals of connectSSE and the response go out of scope
DropConnection ==
    /\ sseScript' = <<>>
    /\ ssePos' = 0
    /\ sseBuffer' = <<>>
    /\ decoder' = <<>>
    /\ sseEvents' = <<>>
    /\ sseCut' = FALSE

\* the delay of line 150, in milliseconds
RetryDelay == 5000

\* the delay doubles with every failure
SseCatchBackoff(message) ==
    /\ stderr' = ConsoleError(message)
    /\ timers' = Append(timers, RetryDelay * (2 ^ sseErrors))
    /\ ssePc' = "waiting"
    /\ sseErrors' = sseErrors + 1

\* the retry is armed twice
SseCatchTwice(message) ==
    /\ stderr' = ConsoleError(message)
    /\ timers' = timers \o <<RetryDelay, RetryDelay>>
    /\ ssePc' = "waiting"
    /\ sseErrors' = sseErrors + 1

\* the catch block of lines 148-151: log and arm the retry timer
SseCatch(message) ==
    /\ stderr' = ConsoleError(message)
    /\ timers' = Append(timers, RetryDelay)
    /\ ssePc' = "waiting"
    /\ sseErrors' = sseErrors + 1

\* `await fetch(sseUrl, ...)` resolves with a success status and the body s
SseConnectOk(s) ==
    /\ pc = "running"
    /\ ssePc = "connecting"
    /\ IsHttpUrl(sseUrl)
    /\ s \in sseMenu
    /\ ssePc' = "streaming"
    /\ sseScript' = s
    /\ ssePos' = 0
    /\ sseBuffer' = <<>>
    /\ decoder' = <<>>
    /\ sseEvents' = <<>>
    /\ sseCut' = FALSE
    /\ sseStatus' = 200
    /\ UNCHANGED <<pc, exitCode, postUrl, inputBuffer, stdinVars, handlers, posts, stdout,
                   stderr, gets, sseErrors, lastEndpoint, timers, envVars>>

\* `await fetch(sseUrl, ...)` rejects
SseConnectReject ==
    /\ pc = "running"
    /\ ssePc = "connecting"
    /\ sseErrors < errorBudget
    /\ SseCatch(D_sseNetwork)
    /\ sseStatus' = 0
    /\ UNCHANGED <<pc, exitCode, postUrl, inputBuffer, stdinVars, handlers, posts, stdout,
                   sseScript, ssePos, sseBuffer, decoder, sseEvents, sseCut, gets,
                   lastEndpoint, envVars>>

\* the status of a response that is not ok
NotOkStatus == 503

\* the body of the response is read whatever its status
SseConnectNotOkReads(s) ==
    /\ pc = "running"
    /\ ssePc = "connecting"
    /\ IsHttpUrl(sseUrl)
    /\ s \in sseMenu
    /\ sseErrors < errorBudget
    /\ ssePc' = "streaming"
    /\ sseScript' = s
    /\ ssePos' = 0
    /\ sseBuffer' = <<>>
    /\ decoder' = <<>>
    /\ sseEvents' = <<>>
    /\ sseCut' = FALSE
    /\ sseStatus' = NotOkStatus
    /\ UNCHANGED <<pc, exitCode, postUrl, inputBuffer, stdinVars, handlers, posts, stdout,
                   stderr, gets, sseErrors, lastEndpoint, timers, envVars>>

\* `await fetch(sseUrl, ...)` resolves with !response.ok, whatever the body
\* s of the response: line 83 throws before a reader is taken
SseConnectNotOk(s) ==
    /\ pc = "running"
    /\ ssePc = "connecting"
    /\ IsHttpUrl(sseUrl)
    /\ s \in sseMenu
    /\ sseErrors < errorBudget
    /\ SseCatch(D_sseStatus)
    /\ sseStatus' = NotOkStatus
    /\ UNCHANGED <<pc, exitCode, postUrl, inputBuffer, stdinVars, handlers, posts, stdout,
                   sseScript, ssePos, sseBuffer, decoder, sseEvents, sseCut, gets,
                   lastEndpoint, envVars>>

\* the last piece is processed with the others and nothing is kept
FrameEventsNoPop(buf) == [events |-> SplitNlNl(buf), rest |-> <<>>]

\* lines 97-98: the complete event blocks of the buffer and what is kept
FrameEvents(buf) ==
    LET events == SplitNlNl(buf)
    IN  [events |-> SubSeq(events, 1, Len(events) - 1), rest |-> events[Len(events)]]

\* `await reader.read()` resolves with a chunk of n bytes: lines 94-146
SseRead(n) ==
    /\ pc = "running"
    /\ ssePc = "streaming"
    /\ n \in 1..(Len(sseScript) - ssePos)
    /\ LET value == SubSeq(sseScript, ssePos + 1, ssePos + n)
           chunk == Decode(decoder, value)
           framed == FrameEvents(sseBuffer \o chunk.text)
           st == ProcessEvents(framed.events,
                               [isEndpointEvent |-> FALSE, postUrl |-> postUrl,
                                stdout |-> stdout])
       IN  /\ decoder' = chunk.held
           /\ sseBuffer' = framed.rest
           /\ postUrl' = st.postUrl
           /\ stdout' = st.stdout
           /\ sseEvents' = sseEvents \o framed.events
           /\ lastEndpoint' = NewestEndpoint(framed.events, lastEndpoint)
           /\ sseCut' = (sseCut \/ (/\ sseBuffer # <<>>
                                    /\ sseBuffer[Len(sseBuffer)] = NL
                                    /\ chunk.text # <<>>
                                    /\ chunk.text[1] = NL))
    /\ ssePos' = ssePos + n
    /\ UNCHANGED <<pc, exitCode, inputBuffer, stdinVars, handlers, posts, stderr, ssePc,
                   sseScript, gets, sseErrors, timers, sseStatus, envVars>>

\* `await reader.read()` resolves with done: line 92 leaves the loop and
\* connectSSE returns
SseDone ==
    /\ pc = "running"
    /\ ssePc = "streaming"
    /\ ssePc' = "stopped"
    /\ DropConnection
    /\ UNCHANGED <<pc, exitCode, postUrl, inputBuffer, stdinVars, handlers, posts, stdout,
                   stderr, gets, sseErrors, lastEndpoint, timers, sseStatus, envVars>>

\* `await reader.read()` rejects
SseReadError ==
    /\ pc = "running"
    /\ ssePc = "streaming"
    /\ sseErrors < errorBudget
    /\ SseCatch(D_sseRead)
    /\ DropConnection
    /\ UNCHANGED <<pc, exitCode, postUrl, inputBuffer, stdinVars, handlers, posts, stdout,
                   gets, lastEndpoint, sseStatus, envVars>>

\* connectSSE derives the target URL anew each time it runs
TimerFireResets ==
    /\ pc = "running"
    /\ ssePc = "waiting"
    /\ timers # <<>>
    /\ timers' = Tail(timers)
    /\ ssePc' = "connecting"
    /\ gets' = gets + 1
    /\ postUrl' = ReplaceSseSuffix(sseUrl)
    /\ UNCHANGED <<pc, exitCode, inputBuffer, stdinVars, handlers, posts, stdout,
                   stderr, sseScript, ssePos, sseBuffer, decoder, sseEvents, sseCut,
                   sseErrors, lastEndpoint, sseStatus, envVars>>

\* the timer of line 150 fires: connectSSE runs again up to its fetch
TimerFire ==
    /\ pc = "running"
    /\ ssePc = "waiting"
    /\ timers # <<>>
    /\ timers' = Tail(timers)
    /\ ssePc' = "connecting"
    /\ gets' = gets + 1
    /\ UNCHANGED <<pc, exitCode, postUrl, inputBuffer, stdinVars, handlers, posts, stdout,
                   stderr, sseScript, ssePos, sseBuffer, decoder, sseEvents, sseCut,
                   sseErrors, lastEndpoint, sseStatus, envVars>>

(***************************************************************************)
(* Start and end of the process.                                           *)
(***************************************************************************)
\* the check reads an argument that is always there
MissingArgWrongIndex(a) == FALSE

\* `!sseUrl`: no argument, or the empty string
MissingArg(a) == ~a.given \/ a.url = <<>>

\* the script's top level, lines 16-34 and 154
Startup ==
    /\ pc = "init"
    /\ IF MissingArg(argv)
       THEN /\ stderr' = ConsoleError(D_usage)
            /\ exitCode' = 1
            /\ pc' = "exited"
            /\ UNCHANGED <<postUrl, ssePc, gets>>
       ELSE /\ postUrl' = ReplaceSseSuffix(sseUrl)
            /\ ssePc' = "connecting"
            /\ gets' = 1
            /\ pc' = "running"
            /\ UNCHANGED <<stderr, exitCode>>
    /\ UNCHANGED <<inputBuffer, stdinVars, handlers, posts, stdout, sseScript, ssePos,
                   sseBuffer, decoder, sseEvents, sseCut, sseErrors, lastEndpoint, timers,
                   sseStatus, envVars>>

\* Node ends the process when nothing keeps the event loop alive: standard
\* input has ended, no request is in flight, no SSE response is open and no
\* timer is armed
ProcessExit ==
    /\ pc = "running"
    /\ stdinEnded
    /\ handlers = {}
    /\ ssePc = "stopped"
    /\ timers = <<>>
    /\ pc' = "exited"
    /\ exitCode' = 0
    /\ UNCHANGED <<postUrl, inputBuffer, stdinVars, handlers, posts, stdout, stderr,
                   sseVars, envVars>>

(***************************************************************************)
(* The 'calculate' tool of the remote worker (worker.js lines 151-184) and *)
(* of the local server (server.js lines 219-305).                          *)
(***************************************************************************)
S_add == <<"a", "d", "d">>
S_subtract == <<"s", "u", "b", "t", "r", "a", "c", "t">>
S_multiply == <<"m", "u", "l", "t", "i", "p", "l", "y">>
S_divide == <<"d", "i", "v", "i", "d", "e">>
S_Result == <<"R", "e", "s", "u", "l", "t", ":", " ">>
S_equals == <<" ", "=", " ">>
S_undefined == <<"u", "n", "d", "e", "f", "i", "n", "e", "d">>
S_Error == <<"E", "r", "r", "o", "r", ":", " ">>
S_DivisionByZero ==
    <<"D", "i", "v", "i", "s", "i", "o", "n", " ", "b", "y", " ", "z", "e", "r", "o">>
S_UnknownOperation ==
    <<"U", "n", "k", "n", "o", "w", "n", " ", "o", "p", "e", "r", "a", "t", "i", "o", "n",
      ":", " ">>

DigitChar(d) == <<"0", "1", "2", "3", "4", "5", "6", "7", "8", "9">>[d + 1]

\* the decimal digits of a natural number
RECURSIVE NatToText(_)
NatToText(n) ==
    IF n < 10 THEN <<DigitChar(n)>>
    ELSE NatToText(n \div 10) \o <<DigitChar(n % 10)>>

\* the digits of the fraction rem / den that Number::toString writes
\* (after the point or, for a value below 0.000001, without their leading
\* zeros before the exponent), for rem < den and a decimal expansion that
\* ends within 15 significant digits: the double nearest to the quotient
\* then has exactly these digits as its shortest form.  On any other quotient the value is
\* left undefined: the digits the code writes there are those of the
\* rounded double, which this model does not compute.  s counts the
\* significant digits written so far
FracDigits(rem, den) ==
    LET RECURSIVE Expansion(_, _)
        Expansion(r, s) ==
            IF r = 0 THEN <<>>
            ELSE IF s = 15 THEN CHOOSE none \in {} : TRUE
            ELSE LET q == (10 * r) \div den
                 IN  <<DigitChar(q)>>
                         \o Expansion((10 * r) % den, IF q = 0 /\ s = 0 THEN 0 ELSE s + 1)
    IN  Expansion(rem, 0)

Abs(n) == IF n < 0 THEN -n ELSE n

\* a value of a JavaScript variable: undefined, or the number num / den
Undefined == [isNumber |-> FALSE, num |-> 0, den |-> 1]
Number(num, den) == [isNumber |-> TRUE, num |-> num, den |-> den]

\* the value in a template literal, `${v}`, for a number whose decimal
\* expansion ends within 15 significant digits, those of its integer part
\* included (the double then has these digits as its shortest form), and is
\* left undefined for any other: zero, also the negative zero, is "0"; a
\* fraction has its digits after a point; a value below 0.000001 is written
\* with an exponent
TemplateText(v) ==
    IF ~v.isNumber THEN S_undefined
    ELSE IF v.num = 0 THEN <<"0">>
    ELSE LET n == Abs(v.num)
             d == Abs(v.den)
             sign == IF (v.num < 0) # (v.den < 0) THEN <<"-">> ELSE <<>>
             frac == FracDigits(n % d, d)
             zeros == Cardinality({i \in 1..Len(frac) :
                                     \A j \in 1..i : frac[j] = "0"})
             digits == SubSeq(frac, zeros + 1, Len(frac))
         IN  IF n \div d > 0 /\ Len(NatToText(n \div d)) + Len(frac) > 15
             THEN CHOOSE none \in {} : TRUE
             ELSE IF n \div d = 0 /\ zeros >= 6
             THEN sign \o <<digits[1]>>
                      \o (IF Len(digits) = 1 THEN <<>> ELSE <<".">> \o Tail(digits))
                      \o <<"e", "-">> \o NatToText(zeros + 1)
             ELSE sign \o NatToText(n \div d)
                      \o (IF frac = <<>> THEN <<>> ELSE <<".">> \o frac)

\* the result object of a tools/call
ToolResult(text, isError) == [text |-> text, isError |-> isError]

\* line 166 of worker.js and line 251 of server.js
ResultText(operation, a, b, result) ==
    S_Result \o TemplateText(Number(a, 1)) \o <<" ">> \o operation \o <<" ">>
    \o TemplateText(Number(b, 1)) \o S_equals \o TemplateText(result)

\* worker.js handleRequest, case 'tools/call', name 'calculate'
RemoteCalculate(operation, a, b) ==
    IF operation = S_divide /\ b = 0
    THEN ToolResult(S_Error \o S_DivisionByZero, TRUE)
    ELSE LET result == IF operation = S_add THEN Number(a + b, 1)
                       ELSE IF operation = S_subtract THEN Number(a - b, 1)
                       ELSE IF operation = S_multiply THEN Number(a * b, 1)
                       ELSE IF operation = S_divide THEN Number(a, b)
                       ELSE Undefined
         IN  ToolResult(ResultText(operation, a, b, result), FALSE)

\* server.js CallToolRequestSchema handler, name 'calculate'
LocalCalculate(operation, a, b) ==
    IF operation = S_divide /\ b = 0
    THEN ToolResult(S_Error \o S_DivisionByZero, TRUE)
    ELSE IF operation \notin {S_add, S_subtract, S_multiply, S_divide}
    THEN ToolResult(S_Error \o S_UnknownOperation \o operation, TRUE)
    ELSE LET result == IF operation = S_add THEN Number(a + b, 1)
                       ELSE IF operation = S_subtract THEN Number(a - b, 1)
                       ELSE IF operation = S_multiply THEN Number(a * b, 1)
                       ELSE Number(a, b)
         IN  ToolResult(ResultText(operation, a, b, result), FALSE)

NoResult == [done |-> FALSE, result |-> ToolResult(<<>>, FALSE)]
NoCalc == [asked |-> FALSE, operation |-> <<>>, a |-> 0, b |-> 0,
           remote |-> NoResult, local |-> NoResult]

\* the request reaches the remote worker
RemoteCall ==
    /\ calc.asked
    /\ ~calc.remote.done
    /\ calc' = [calc EXCEPT !.remote =
                    [done |-> TRUE,
                     result |-> RemoteCalculate(calc.operation, calc.a, calc.b)]]
    /\ UNCHANGED <<pc, exitCode, postUrl, inputBuffer, stdinVars, handlers, posts, stdout,
                   stderr, sseVars, argv, stdinScript, sseMenu, respMenu, errorBudget>>

\* the same request reaches the local server
LocalCall ==
    /\ calc.asked
    /\ ~calc.local.done
    /\ calc' = [calc EXCEPT !.local =
                    [done |-> TRUE,
                     result |-> LocalCalculate(calc.operation, calc.a, calc.b)]]
    /\ UNCHANGED <<pc, exitCode, postUrl, inputBuffer, stdinVars, handlers, posts, stdout,
                   stderr, sseVars, argv, stdinScript, sseMenu, respMenu, errorBudget>>

\* the operation strings and numbers of the requests; the quotients of the
\* numbers have at most one digit after the point
CalcOperations == {S_add, S_subtract, S_multiply, S_divide, <<"m", "o", "d">>}
CalcNumbers == {-2, -1, 0, 1, 2}

(***************************************************************************)
(* The /mcp endpoint of the remote worker (worker.js lines 118-210 and     *)
(* 244-271), for requests with the methods notifications/initialized and   *)
(* ping and with a method the worker does not know.                        *)
(***************************************************************************)
S_jsonrpc == <<"{", Quote, "j", "s", "o", "n", "r", "p", "c", Quote, ":", Quote, "2", ".", "0", Quote>>
S_methodKey == <<",", Quote, "m", "e", "t", "h", "o", "d", Quote, ":", Quote>>
S_idKey == <<",", Quote, "i", "d", Quote, ":">>
S_emptyResult == <<",", Quote, "r", "e", "s", "u", "l", "t", Quote, ":", "{", "}", "}">>
S_methodNotFound ==
    <<",", Quote, "e", "r", "r", "o", "r", Quote, ":", "{", Quote, "c", "o", "d", "e", Quote,
      ":", "-", "3", "2", "6", "0", "1", ",", Quote, "m", "e", "s", "s", "a", "g", "e", Quote,
      ":", Quote, "M", "e", "t", "h", "o", "d", " ", "n", "o", "t", " ", "f", "o", "u", "n",
      "d", ":", " ">>
S_notificationsInitialized ==
    <<"n", "o", "t", "i", "f", "i", "c", "a", "t", "i", "o", "n", "s", "/", "i", "n", "i",
      "t", "i", "a", "l", "i", "z", "e", "d">>
S_ping == <<"p", "i", "n", "g">>

\* a JSON-RPC message: its method, and its id when it has one
Notification(method) == [method |-> method, hasId |-> FALSE, id |-> 0]
Request(method, id) == [method |-> method, hasId |-> TRUE, id |-> id]

\* the body of a POST, parsed: one message, or a batch array of messages
Single(msg) == [batch |-> FALSE, msgs |-> <<msg>>]
Batch(msgs) == [batch |-> TRUE, msgs |-> msgs]

\* an id property as JSON.stringify writes it: nothing when undefined
IdText(msg) == IF msg.hasId THEN S_idKey \o NatToText(msg.id) ELSE <<>>

\* the JSON text of a message, as the local peer writes it on one line
MessageText(msg) ==
    S_jsonrpc \o S_methodKey \o msg.method \o <<Quote>> \o IdText(msg) \o <<"}">>

\* the texts joined by commas
RECURSIVE JoinComma(_)
JoinComma(texts) ==
    IF texts = <<>> THEN <<>>
    ELSE IF Len(texts) = 1 THEN texts[1]
    ELSE texts[1] \o <<",">> \o JoinComma(Tail(texts))

\* the line that carries the body
BodyText(body) ==
    IF body.batch
    THEN <<"[">> \o JoinComma([i \in 1..Len(body.msgs) |-> MessageText(body.msgs[i])]) \o <<"]">>
    ELSE MessageText(body.msgs[1])

\* JSON.stringify of what handleRequest returns for the message: null for
\* the notification, a result for ping, the error of the default case
HandleRequestText(msg) ==
    IF msg.method = S_notificationsInitialized THEN S_null
    ELSE IF msg.method = S_ping THEN S_jsonrpc \o IdText(msg) \o S_emptyResult
    ELSE S_jsonrpc \o IdText(msg) \o S_methodNotFound \o msg.method \o <<Quote, "}", "}">>

\* the response of the /mcp endpoint to a POST with the body
WorkerMcp(body) ==
    IF body.batch
    THEN [status |-> 200,
          body |-> <<"[">>
                   \o JoinComma([i \in 1..Len(body.msgs) |-> HandleRequestText(body.msgs[i])])
                   \o <<"]">>]
    ELSE IF body.msgs[1].method = S_notificationsInitialized
    THEN [status |-> 204, body |-> <<>>]
    ELSE [status |-> 200, body |-> HandleRequestText(body.msgs[1])]

\* the bodies the local peer sends
RpcBodies ==
    {Single(Notification(S_notificationsInitialized)),
     Single(Request(S_ping, 1)),
     Single(Request(<<"x">>, 2)),
     Batch(<<Notification(S_notificationsInitialized)>>),
     Batch(<<Request(S_ping, 1), Notification(S_notificationsInitialized)>>)}

(***************************************************************************)
(* The environment's scripts.                                              *)
(***************************************************************************)
U_sse == <<"h", "t", "t", "p", ":", "/", "/", "h", "/", "s", "s", "e">>
U_other == <<"h", "t", "t", "p", ":", "/", "/", "k", "/", "m">>
U_sse_mcp == <<"h", "t", "t", "p", ":", "/", "/", "h", "/", "m", "c", "p">>

ArgMenu ==
    {[given |-> FALSE, url |-> <<>>],
     [given |-> TRUE, url |-> <<>>],
     [given |-> TRUE, url |-> U_sse]}

\* event blocks, as the server writes them before the blank line
B_relative == S_event \o S_endpoint \o <<NL>> \o S_data \o <<"/", "n">>
B_absolute == S_event \o S_endpoint \o <<NL>> \o S_data \o U_other
B_ready ==
    S_data \o <<"{", Quote>> \o S_method \o <<Quote, ":", Quote>>
    \o S_connectionReady \o <<Quote, "}">>
B_capabilities ==
    S_data \o <<"{", Quote>> \o S_method \o <<Quote, ":", " ", Quote>>
    \o S_serverCapabilities \o <<Quote, ",", Quote, "p", Quote, ":", "[", "]", "}">>
B_notify ==
    S_data \o <<"{", Quote>> \o S_method \o <<Quote, ":", Quote, "n", Quote, "}">>
B_result == S_data \o <<"{", Quote, "i", "d", Quote, ":", "1", "}">>
B_text == S_data \o <<"h", "i">>
B_named ==
    S_event \o <<"m", "s", "g", NL>> \o S_data \o <<Quote, LeadByte, ContByte, Quote>>
B_null == S_data \o S_null
B_keepalive == <<":", " ", "k", "e", "e", "p", "a", "l", "i", "v", "e">>
B_blankFirst == <<NL>> \o S_data \o <<"x">>

\* endpoint events of other shapes: two data lines; a data line before the
\* line that names the event; no data line
B_endpointTwo == B_relative \o <<NL>> \o S_data \o <<"x", "2">>
B_dataFirst == S_data \o <<"d", "1", NL>> \o B_relative
B_endpointOnly == S_event \o S_endpoint

\* an endpoint event whose data is neither a URL nor a path
B_opaque == S_event \o S_endpoint \o <<NL>> \o S_data \o <<"z", "z">>

\* a message with two data lines
B_twoData == S_data \o <<"p", "1", NL>> \o S_data \o <<"p", "2">>

Blocks ==
    {B_relative, B_absolute, B_ready, B_capabilities, B_notify, B_result, B_text,
     B_named, B_null, B_keepalive, B_blankFirst}

\* the bytes of a response that sends the blocks, each closed by a blank line
RECURSIVE Stream(_)
Stream(blocks) ==
    IF blocks = <<>> THEN <<>>
    ELSE Head(blocks) \o <<NL, NL>> \o Stream(Tail(blocks))

\* every two blocks in a row; one stream that ends inside an event
SseMenuFull ==
    {Stream(<<b1, b2>>) : b1 \in Blocks, b2 \in Blocks}
    \cup {Stream(<<B_text, B_relative, B_notify>>) \o S_data \o <<"c", "u", "t">>,
           Stream(<<B_capabilities, B_notify, B_text>>)}

\* every two in a row of the endpoint events and a message
SseMenuEndpoint ==
    {Stream(<<b1, b2>>) :
        b1 \in {B_relative, B_endpointTwo, B_dataFirst, B_endpointOnly, B_text, B_twoData},
        b2 \in {B_relative, B_endpointTwo, B_dataFirst, B_endpointOnly, B_text, B_twoData}}

SseMenuMain == {Stream(<<B_relative, B_text, B_absolute>>)}

StdinMenuMain == {<<"a", NL, "b", NL>>}

StdinMenuFull ==
    {<<"a", NL, "b", NL>>,
     <<"a", NL, " ", "\f", NL, "\r", NL, "b">>,
     <<"x", LeadByte, ContByte, NL, "y", NL>>,
     <<"a", "\r", NL, "b", NL>>}

RespMenuMain == {[status |-> 200, body |-> <<"r">>], [status |-> 204, body |-> <<>>]}

RespMenuFull ==
    {[status |-> 200, body |-> <<"r">>],
     [status |-> 204, body |-> <<>>],
     [status |-> 200, body |-> <<"r", NL>>],
     [status |-> 400, body |-> <<" ">>],
     [status |-> 500, body |-> <<"e">>]}

InitCommon ==
    /\ pc = "init"
    /\ exitCode = -1
    /\ postUrl = <<>>
    /\ inputBuffer = <<>>
    /\ stdinPos = 0
    /\ stdinEnded = FALSE
    /\ handlers = {}
    /\ posts = <<>>
    /\ stdout = <<>>
    /\ stderr = [d \in Diagnostics |-> 0]
    /\ ssePc = "idle"
    /\ sseScript = <<>>
    /\ ssePos = 0
    /\ sseBuffer = <<>>
    /\ decoder = <<>>
    /\ sseEvents = <<>>
    /\ sseCut = FALSE
    /\ gets = 0
    /\ sseErrors = 0
    /\ lastEndpoint = NoEndpoint
    /\ timers = <<>>
    /\ sseStatus = 0

\* the whole bridge: both directions, the SSE response read line by line
Init ==
    /\ InitCommon
    /\ argv \in ArgMenu
    /\ stdinScript \in StdinMenuMain
    /\ sseMenu = SseMenuMain
    /\ respMenu = RespMenuMain
    /\ errorBudget = MaxSseErrors
    /\ calc = NoCalc

\* the inbound direction alone: nothing arrives on standard input
InitSse ==
    /\ InitCommon
    /\ argv = [given |-> TRUE, url |-> U_sse]
    /\ stdinScript = <<>>
    /\ sseMenu = SseMenuFull
    /\ respMenu = {}
    /\ errorBudget = MaxSseErrors
    /\ calc = NoCalc

\* the inbound direction alone, on endpoint events of every shape
InitEndpoint ==
    /\ InitCommon
    /\ argv = [given |-> TRUE, url |-> U_sse]
    /\ stdinScript = <<>>
    /\ sseMenu = SseMenuEndpoint
    /\ respMenu = {}
    /\ errorBudget = MaxSseErrors
    /\ calc = NoCalc

\* the outbound direction alone: the SSE request stays unanswered
InitStdin ==
    /\ InitCommon
    /\ argv = [given |-> TRUE, url |-> U_sse]
    /\ stdinScript \in StdinMenuFull
    /\ sseMenu = {}
    /\ respMenu = RespMenuFull
    /\ errorBudget = MaxSseErrors
    /\ calc = NoCalc

\* the read sizes that end the chunk after a newline or at the end of what
\* the server has sent: the network delivers whole lines
LineCuts ==
    {n \in 1..(Len(sseScript) - ssePos) :
        \/ ssePos + n = Len(sseScript)
        \/ sseScript[ssePos + n] = NL}

Next ==
    \/ Startup
    \/ \E n \in 1..Len(stdinScript) : StdinData(n)
    \/ StdinEnd
    \/ \E h \in handlers, resp \in respMenu : FetchResolve(h, resp)
    \/ \E h \in handlers : TextResolve(h)
    \/ \E h \in handlers : PostFail(h)
    \/ \E s \in sseMenu : SseConnectOk(s)
    \/ SseConnectReject
    \/ \E s \in sseMenu : SseConnectNotOk(s)
    \/ \E n \in LineCuts : SseRead(n)
    \/ SseDone
    \/ SseReadError
    \/ TimerFire
    \/ ProcessExit

Spec == Init /\ [][Next]_vars

\* one SSE response, read in chunks of every size
NextSse ==
    \/ Startup
    \/ \E s \in sseMenu : SseConnectOk(s)
    \/ \E n \in 1..Len(sseScript) : SseRead(n)
    \/ SseDone

SpecSse == InitSse /\ [][NextSse]_vars

SpecEndpoint == InitEndpoint /\ [][NextSse]_vars

\* both directions, the server announcing an endpoint that is no URL, then
\* a message, then an endpoint that is one; the listener does not fail
InitOpaque ==
    /\ InitCommon
    /\ argv = [given |-> TRUE, url |-> U_sse]
    /\ stdinScript \in StdinMenuMain
    /\ sseMenu = {Stream(<<B_opaque, B_text, B_absolute>>)}
    /\ respMenu = RespMenuMain
    /\ errorBudget = 0
    /\ calc = NoCalc

NextOpaque ==
    \/ Startup
    \/ \E n \in 1..Len(stdinScript) : StdinData(n)
    \/ \E h \in handlers, resp \in respMenu : FetchResolve(h, resp)
    \/ \E h \in handlers : TextResolve(h)
    \/ \E h \in handlers : PostFail(h)
    \/ \E s \in sseMenu : SseConnectOk(s)
    \/ \E n \in LineCuts : SseRead(n)

SpecOpaque == InitOpaque /\ [][NextOpaque]_vars

\* the listener alone, failing again and again
InitRetry ==
    /\ InitCommon
    /\ argv = [given |-> TRUE, url |-> U_sse]
    /\ stdinScript = <<>>
    /\ sseMenu = {Stream(<<B_relative, B_text>>), Stream(<<B_absolute>>)}
    /\ respMenu = {}
    /\ errorBudget = MaxRetryErrors
    /\ calc = NoCalc

NextRetry ==
    \/ Startup
    \/ \E s \in sseMenu : SseConnectOk(s)
    \/ SseConnectReject
    \/ \E s \in sseMenu : SseConnectNotOk(s)
    \/ \E n \in LineCuts : SseRead(n)
    \/ SseDone
    \/ SseReadError
    \/ TimerFire

\* the event loop runs the script and fires a timer that is due
SpecRetry == InitRetry /\ [][NextRetry]_vars /\ WF_vars(Startup) /\ WF_vars(TimerFire)

\* standard input in chunks of every size, and the answers to the POSTs
NextStdin ==
    \/ Startup
    \/ \E n \in 1..Len(stdinScript) : StdinData(n)
    \/ StdinEnd
    \/ \E h \in handlers, resp \in respMenu : FetchResolve(h, resp)
    \/ \E h \in handlers : TextResolve(h)
    \/ \E h \in handlers : PostFail(h)

SpecStdin == InitStdin /\ [][NextStdin]_vars

\* the endpoint URL the worker announces on the k-th connection: the origin
\* of the request and a session id that no other connection has
SessionUrl(k) ==
    Origin(sseUrl) \o S_mcp
        \o <<"?", "s", "e", "s", "s", "i", "o", "n", "I", "d", "=">> \o NatToText(k)

\* every connection is told the session of the first
WorkerSseSameSession(k) ==
    Stream(<<S_event \o S_endpoint \o <<NL>> \o S_data \o SessionUrl(1), B_keepalive>>)

\* the worker's response to GET /sse on the k-th connection: the endpoint
\* event, then a keep-alive comment
WorkerSse(k) ==
    Stream(<<S_event \o S_endpoint \o <<NL>> \o S_data \o SessionUrl(k), B_keepalive>>)

\* both directions against the worker: two lines on standard input, and a
\* listener that reconnects after a failed read
InitSession ==
    /\ InitCommon
    /\ argv = [given |-> TRUE, url |-> U_sse]
    /\ stdinScript \in StdinMenuMain
    /\ sseMenu = {WorkerSse(k) : k \in 1..(MaxSseErrors + 1)}
    /\ respMenu = {[status |-> 200, body |-> <<"r">>]}
    /\ errorBudget = MaxSseErrors
    /\ calc = NoCalc

NextSession ==
    \/ Startup
    \/ \E n \in 1..Len(stdinScript) : StdinData(n)
    \/ \E h \in handlers, resp \in respMenu : FetchResolve(h, resp)
    \/ \E h \in handlers : TextResolve(h)
    \/ SseConnectOk(WorkerSse(gets))
    \/ \E n \in LineCuts : SseRead(n)
    \/ SseReadError
    \/ TimerFire

SpecSession == InitSession /\ [][NextSession]_vars

\* one 'calculate' request, sent to both servers; the bridge does not run
InitCalc ==
    /\ InitCommon
    /\ argv = [given |-> TRUE, url |-> U_sse]
    /\ stdinScript = <<>>
    /\ sseMenu = {}
    /\ respMenu = {}
    /\ errorBudget = MaxSseErrors
    /\ calc \in {[NoCalc EXCEPT !.asked = TRUE, !.operation = o, !.a = x, !.b = y] :
                    o \in CalcOperations, x \in CalcNumbers, y \in CalcNumbers}

\* the listener alone, on a response that ends inside an event and one of a
\* whole event; a read brings all that the server has sent
InitPartial ==
    /\ InitCommon
    /\ argv = [given |-> TRUE, url |-> U_sse]
    /\ stdinScript = <<>>
    /\ sseMenu = {Stream(<<B_relative>>) \o S_data \o <<"c", "u", "t", NL>>,
                  Stream(<<B_text>>)}
    /\ respMenu = {}
    /\ errorBudget = MaxRetryErrors
    /\ calc = NoCalc

NextPartial ==
    \/ Startup
    \/ \E s \in sseMenu : SseConnectOk(s)
    \/ SseConnectReject
    \/ SseRead(Len(sseScript) - ssePos)
    \/ SseDone
    \/ SseReadError
    \/ TimerFire

SpecPartial == InitPartial /\ [][NextPartial]_vars

\* the outbound direction alone, on three lines and on blank lines between
\* lines, in chunks of every size
StdinMenuLines ==
    {<<"a", NL, "b", NL, "c", NL>>,
     <<"a", NL, " ", NL, "b", NL, NL, "c">>}

InitLines ==
    /\ InitCommon
    /\ argv = [given |-> TRUE, url |-> U_sse]
    /\ stdinScript \in StdinMenuLines
    /\ sseMenu = {}
    /\ respMenu = RespMenuMain
    /\ errorBudget = MaxSseErrors
    /\ calc = NoCalc

SpecLines == InitLines /\ [][NextStdin]_vars

\* one line on standard input, answered by the worker's /mcp endpoint
InitWorker ==
    /\ InitCommon
    /\ argv = [given |-> TRUE, url |-> U_sse]
    /\ \E body \in RpcBodies :
          /\ stdinScript = BodyText(body) \o <<NL>>
          /\ respMenu = {WorkerMcp(body)}
    /\ sseMenu = {}
    /\ errorBudget = MaxSseErrors
    /\ calc = NoCalc

SpecWorker == InitWorker /\ [][NextStdin]_vars

NextCalc ==
    \/ RemoteCall
    \/ LocalCall

SpecCalc == InitCalc /\ [][NextCalc]_vars

(***************************************************************************)
(* Properties.                                                             *)
(***************************************************************************)
\* the newline-terminated pieces of a text, in order
CompleteLines(text) ==
    LET pieces == SplitNl(text)
    IN  SubSeq(pieces, 1, Len(pieces) - 1)

\* what follows the last newline of a text
Fragment(text) ==
    LET pieces == SplitNl(text)
    IN  pieces[Len(pieces)]

IsNonBlank(line) == \E i \in 1..Len(line) : line[i] \notin WhiteSpace

NonBlank(lines) == SelectSeq(lines, IsNonBlank)

\* the request bodies of the POSTs issued so far, in the order of issue
Bodies == [i \in 1..Len(posts) |-> posts[i].body]

\* the bytes standard input has delivered so far, decoded as one text
Delivered == toString(SubSeq(stdinScript, 1, stdinPos))

\* C1: the lines POSTed so far, followed by the complete non-blank lines
\* still waiting in the buffer, are exactly the newline-terminated non-blank
\* segments of the bytes delivered so far, in order, however the bytes were
\* cut into chunks; once every line is extracted, the buffer holds exactly
\* the trailing fragment.
LineFramerExact ==
    pc = "running" =>
        /\ Bodies \o NonBlank(CompleteLines(inputBuffer))
              = NonBlank(CompleteLines(Delivered))
        /\ (handlers = {} /\ stdinPos = Len(stdinScript)
              => inputBuffer = Fragment(Delivered))

\* C5: the listener has no terminal state: while the process runs,
\* connectSSE is connecting, streaming or waiting to retry, and has never
\* returned for good.
ListenerNeverStops == pc = "running" => ssePc # "stopped"

\* C8: without an SSE URL argument no GET and no POST is ever issued and
\* nothing is written to standard output, and once the script has run the
\* process has exited with a non-zero status and the usage message is on
\* the diagnostic channel.
StartupErrorExits ==
    ~argv.given =>
        /\ gets = 0
        /\ posts = <<>>
        /\ stdout = <<>>
        /\ pc \in {"init", "exited"}
        /\ (pc = "exited" => exitCode # 0 /\ stderr[D_usage] = 1)

StartupErrorWitness ==
    /\ ~argv.given
    /\ pc = "exited"
    /\ exitCode = 1
    /\ stderr[D_usage] = 1

\* C10: every write to standard output ends with exactly one newline.
OneNewlineEach ==
    \A i \in 1..Len(stdout) :
        LET w == stdout[i]
        IN  /\ Len(w) >= 1
            /\ w[Len(w)] = NL
            /\ (Len(w) >= 2 => w[Len(w) - 1] # NL)

\* the data payloads among the lines of the first n bytes of the current
\* SSE response
SsePayloads(n) ==
    LET lines == SplitNl(toString(SubSeq(sseScript, 1, n)))
    IN  {Slice(lines[i], 6) : i \in {j \in 1..Len(lines) : StartsWith(lines[j], S_data)}}

\* C9: standard output only grows, and every write added to it is, with its
\* newline, the body of a POST response whose text has just been read or the
\* data payload of a line of the SSE response read so far; no diagnostic
\* line is ever among the writes.
OutputPurity ==
    [][/\ Len(stdout') >= Len(stdout)
       /\ SubSeq(stdout', 1, Len(stdout)) = stdout
       /\ \A i \in (Len(stdout) + 1)..Len(stdout') :
             \/ \E h \in handlers :
                   h.phase = "text" /\ stdout'[i] = h.resp.body \o <<NL>>
             \/ /\ ssePc = "streaming"
                /\ \E d \in SsePayloads(ssePos') : stdout'[i] = d \o <<NL>>]_vars

OutputPurityWitness ==
    /\ \E i \in 1..Len(stdout) : stdout[i] = <<"r", NL>>
    /\ \E i \in 1..Len(stdout) : stdout[i] = <<"h", "i", NL>>
    /\ stderr[D_forward] >= 1
    /\ stderr[D_sseRead] >= 1

\* C3: a POST issued after an endpoint event was processed targets the data
\* of the newest such event when that is an absolute URL, and the origin of
\* the SSE URL followed by the data when the data starts with "/"; the POSTs
\* issued earlier, in flight or not, keep the target they were issued with.
EndpointRetargets ==
    [][/\ Len(posts') >= Len(posts)
       /\ \A i \in 1..Len(posts) : posts'[i] = posts[i]
       /\ (lastEndpoint.seen /\ Len(posts') > Len(posts)) =>
             LET p == posts'[Len(posts')]
                 d == lastEndpoint.data
             IN  /\ IsHttpUrl(d) => p.url = d
                 /\ (Len(d) >= 1 /\ d[1] = "/") => p.url = Origin(sseUrl) \o d]_vars

EndpointRetargetsWitness ==
    \E i \in 1..Len(posts), j \in 1..Len(posts) :
        /\ i < j
        /\ posts[i].url = U_sse_mcp
        /\ \E h \in handlers : h.post = i
        /\ lastEndpoint.seen
        /\ lastEndpoint.data = <<"/", "n">>
        /\ posts[j].url = <<"h", "t", "t", "p", ":", "/", "/", "h", "/", "n">>

\* the index of the k-th newline of a text
NthNl(text, k) ==
    CHOOSE i \in 1..Len(text) :
        text[i] = NL /\ Cardinality({j \in 1..i : text[j] = NL}) = k

\* C6: a step in which a POST fails leaves the target URL, standard output
\* and the listener as they are and the process running; the handler goes
\* on with the buffer: the next complete non-blank line, if there is one, is
\* POSTed to the current target in the same step and is the last thing
\* removed from the buffer.
FailureIsolated ==
    [][stderr'[D_forward] > stderr[D_forward] =>
          LET lines == CompleteLines(inputBuffer)
              nb == {i \in 1..Len(lines) : IsNonBlank(lines[i])}
              k == CHOOSE i \in nb : \A j \in nb : i <= j
          IN  /\ pc' = "running"
              /\ postUrl' = postUrl
              /\ stdout' = stdout
              /\ UNCHANGED sseVars
              /\ IF nb = {}
                 THEN /\ posts' = posts
                      /\ inputBuffer' = Fragment(inputBuffer)
                 ELSE /\ posts' = Append(posts, [url |-> postUrl, body |-> lines[k]])
                      /\ \E h \in handlers' : h.post = Len(posts') /\ h.phase = "fetch"
                      /\ inputBuffer' = Slice(inputBuffer, NthNl(inputBuffer, k))]_vars

FailureIsolatedWitness ==
    /\ stderr[D_forward] = 1
    /\ Len(posts) = 2
    /\ handlers = {[post |-> 2, phase |-> "fetch", resp |-> [status |-> 0, body |-> <<>>]]}
    /\ stdinPos = 4
    /\ ssePc = "streaming"
    /\ sseEvents # <<>>

(***************************************************************************)
(* The reading of an event block that the SSE framing of the remote        *)
(* endpoint defines: each line is a field name, a colon, a space and the   *)
(* value.                                                                  *)
(***************************************************************************)
ColonAt(line) ==
    LET hits == {i \in 1..Len(line) : line[i] = ":"}
    IN  IF hits = {} THEN 0 ELSE CHOOSE i \in hits : \A j \in hits : i <= j

FieldName(line) ==
    IF ColonAt(line) = 0 THEN line ELSE SubSeq(line, 1, ColonAt(line) - 1)

FieldValue(line) ==
    LET c == ColonAt(line)
    IN  IF c = 0 THEN <<>>
        ELSE IF c < Len(line) /\ line[c + 1] = " " THEN Slice(line, c + 1)
        ELSE Slice(line, c)

IsEventField(line) == FieldName(line) = <<"e", "v", "e", "n", "t">>
IsDataField(line) == FieldName(line) = <<"d", "a", "t", "a">>

\* the event of a block: its name (empty when it has none) and the values
\* of its data lines
RefEvent(block) ==
    LET lines == SplitNl(block)
        named == SelectSeq(lines, IsEventField)
        datas == SelectSeq(lines, IsDataField)
    IN  [name |-> IF named = <<>> THEN <<>> ELSE FieldValue(named[Len(named)]),
         data |-> [i \in 1..Len(datas) |-> FieldValue(datas[i])]]

\* the number of blank-line delimiters of a text, counted from the left: a
\* newline followed by a newline, after an even number of newlines in a row
CountDelims(text) ==
    LET before(i) == {j \in 1..(i - 1) : \A k \in j..(i - 1) : text[k] = NL}
    IN  Cardinality({i \in 1..(Len(text) - 1) :
                       /\ text[i] = NL
                       /\ text[i + 1] = NL
                       /\ Cardinality(before(i)) % 2 = 0})

\* the data is JSON and its method is one of the two suppressed names
RefSuppressed(data) ==
    LET msg == JsonParse(data)
    IN  /\ msg.ok
        /\ msg.method.has
        /\ msg.method.isStr
        /\ \/ msg.method.str = S_connectionReady
           \/ msg.method.str = S_serverCapabilities

\* the writes the data values of one event cause when none is suppressed
RECURSIVE RefWrites(_)
RefWrites(datas) ==
    IF datas = <<>> THEN <<>>
    ELSE (IF RefSuppressed(Head(datas)) THEN <<>> ELSE <<Head(datas) \o <<NL>>>>)
         \o RefWrites(Tail(datas))

\* target URL and output after the events of the blocks, one after the
\* other, from the target URL and the output in st
RECURSIVE RefEffects(_, _)
RefEffects(blocks, st) ==
    IF blocks = <<>> THEN st
    ELSE LET e == RefEvent(Head(blocks))
         IN  RefEffects(Tail(blocks),
                 IF e.data = <<>> THEN st
                 ELSE IF e.name = S_endpoint
                      THEN [st EXCEPT !.postUrl = EndpointTarget(e.data[1])]
                      ELSE [st EXCEPT !.stdout = @ \o RefWrites(e.data)])

\* the text of the SSE response read so far, without the bytes of a
\* character that the last read cut short
SseText == toString(SubSeq(sseScript, 1, ssePos - Len(decoder)))

\* C2: on an SSE response, however it is cut into reads, the events
\* processed are exactly the blocks that the blank-line delimiters of the
\* text read so far close, as many as there are delimiters, the unclosed
\* rest is what the buffer keeps, and target URL and output are those of the
\* events' names and data.
EventFramerExact ==
    ssePc = "streaming" =>
        /\ Len(sseEvents) = CountDelims(SseText)
        /\ sseEvents \o <<sseBuffer>> = SplitNlNl(SseText)
        /\ [postUrl |-> postUrl, stdout |-> stdout]
              = RefEffects(sseEvents, [postUrl |-> ReplaceSseSuffix(sseUrl), stdout |-> <<>>])

EventFramerWitness ==
    /\ ssePc = "streaming"
    /\ sseCut
    /\ sseEvents = <<B_relative, toString(B_named)>>
    /\ sseBuffer = <<>>
    /\ postUrl = <<"h", "t", "t", "p", ":", "/", "/", "h", "/", "n">>
    /\ stdout = <<<<Quote, DecodedChar, Quote, NL>>>>

\* C4: a read that completes only events not named endpoint adds to
\* standard output exactly the data of those events, in order and each
\* followed by a newline, except the data that is JSON with the method
\* connection/ready or server/capabilities, which is left out.
NotificationFilter ==
    [][LET new == SubSeq(sseEvents', Len(sseEvents) + 1, Len(sseEvents'))
           RECURSIVE Expected(_)
           Expected(blocks) ==
               IF blocks = <<>> THEN <<>>
               ELSE RefWrites(RefEvent(Head(blocks)).data) \o Expected(Tail(blocks))
       IN  (/\ ssePc = "streaming"
            /\ ssePc' = "streaming"
            /\ new # <<>>
            /\ \A i \in 1..Len(new) : RefEvent(new[i]).name # S_endpoint)
           => stdout' = stdout \o Expected(new)]_vars

NotificationFilterWitness ==
    /\ ssePc = "streaming"
    /\ sseEvents = <<B_capabilities, B_notify, B_text>>
    /\ stdout = <<Slice(B_notify, 6) \o <<NL>>, <<"h", "i", NL>>>>

(***************************************************************************)
(* Liveness.  The event loop runs what is ready: the script, a due timer,  *)
(* the end of the process when nothing is left; every request is answered  *)
(* or fails.  How long the server keeps an SSE response open, and what     *)
(* the local peer writes, is up to them.                                   *)
(***************************************************************************)
Fairness ==
    /\ WF_vars(Startup)
    /\ WF_vars(TimerFire)
    /\ WF_vars(ProcessExit)
    /\ WF_vars(\E h \in handlers :
                  \/ \E resp \in respMenu : FetchResolve(h, resp)
                  \/ TextResolve(h)
                  \/ PostFail(h))
    /\ WF_vars(\/ \E s \in sseMenu : SseConnectOk(s)
               \/ SseConnectReject
               \/ \E s \in sseMenu : SseConnectNotOk(s))

SpecFair == Init /\ [][Next]_vars /\ Fairness

\* C7: once standard input has reached end-of-stream, the process exits.
StdinEofExits == stdinEnded ~> (pc = "exited")

\* the invocations whose POST completes in this step without an error: the
\* body of the response has been read
Completing == {h \in handlers : h.phase = "text"} \ handlers'

\* C11: a step in which a POST completes without a transport error appends
\* the response body and a newline to standard output when the body has a
\* character that is not whitespace, and leaves standard output as it is
\* when the body is empty or blank, whatever the status of the response; no
\* other step of the outbound direction writes to standard output.
ResponseRelayed ==
    [][IF Completing # {} /\ stderr' = stderr
       THEN \E h \in Completing :
               stdout' = IF IsNonBlank(h.resp.body)
                         THEN Append(stdout, h.resp.body \o <<NL>>)
                         ELSE stdout
       ELSE stdout' = stdout]_vars

ResponseRelayedWitness ==
    /\ Len(posts) = 2
    /\ handlers = {}
    /\ stderr[D_forward] = 0
    /\ stdout = <<<<"e", NL>>>>

\* C12: no data of an event block named endpoint that was processed on the
\* current connection is among the writes to standard output.
EndpointNeverForwarded ==
    \A k \in 1..Len(sseEvents) :
        LET e == RefEvent(sseEvents[k])
        IN  e.name = S_endpoint =>
                \A j \in 1..Len(e.data), i \in 1..Len(stdout) :
                    stdout[i] # e.data[j] \o <<NL>>

\* the event blocks whose processing this step completes
NewEvents == SubSeq(sseEvents', Len(sseEvents) + 1, Len(sseEvents'))

\* C13: the target URL is set when the script starts; after that a step
\* changes it only when it is a read of the SSE response that processes an
\* event named endpoint with a data line, and then to the target that data
\* gives.  Every other step (a chunk on standard input, a POST issued,
\* answered or failed, a read that completes only other events, an SSE
\* failure, a retry) leaves it as it is.
SingleWriter ==
    [][postUrl' # postUrl =>
          \/ pc = "init"
          \/ /\ ssePc = "streaming"
             /\ ssePos' > ssePos
             /\ \E k \in 1..Len(NewEvents) :
                   LET e == RefEvent(NewEvents[k])
                   IN  /\ e.name = S_endpoint
                       /\ e.data # <<>>
                       /\ postUrl' = EndpointTarget(e.data[1])]_vars

\* the target set by the first connection is still there after that
\* connection broke and the retry began, with a POST in between
SingleWriterWitness ==
    /\ postUrl = U_other
    /\ stderr[D_sseRead] = 1
    /\ ssePc = "connecting"
    /\ gets = 2
    /\ Len(posts) >= 1
    /\ \E i \in 1..Len(stdout) : stdout[i] = <<"h", "i", NL>>

\* C14: while the listener has no SSE response open (it is connecting,
\* waiting to retry, or has returned), a chunk on standard input that
\* leaves a complete non-blank line in the buffer has the first such line
\* POSTed to the current target URL in the same step, and a POST that
\* completes with a non-blank body has the body written to standard output
\* in the same step.
DegradedOperation ==
    [][(ssePc \in {"connecting", "waiting", "stopped"} /\ ssePc' = ssePc) =>
          /\ stdinPos' > stdinPos =>
                LET chunk == SubSeq(stdinScript, stdinPos + 1, stdinPos')
                    lines == NonBlank(CompleteLines(inputBuffer \o toString(chunk)))
                IN  IF lines = <<>> THEN posts' = posts
                    ELSE /\ posts' = Append(posts, [url |-> postUrl, body |-> lines[1]])
                         /\ \E h \in handlers' : h.post = Len(posts') /\ h.phase = "fetch"
          /\ (Completing # {} /\ stderr' = stderr) =>
                \E h \in Completing :
                    IsNonBlank(h.resp.body) => stdout' = Append(stdout, h.resp.body \o <<NL>>)]_vars

\* the first connection attempt failed, and two lines were POSTed and one
\* answer relayed all the same
DegradedOperationWitness ==
    /\ ssePc = "waiting"
    /\ gets = 1
    /\ stderr[D_sseNetwork] = 1
    /\ Len(posts) = 2
    /\ stdout = <<<<"r", NL>>>>

\* C15: the POSTs issued are, in order, the first of the non-blank lines
\* that standard input has delivered, one POST for each line; a step in
\* which a POST fails writes nothing to standard output and ends the
\* request: no invocation of the handler waits for it any more.
NoRetry ==
    [][/\ posts' # posts =>
             LET lines == NonBlank(CompleteLines(Delivered'))
             IN  /\ Len(posts') <= Len(lines)
                 /\ Bodies' = SubSeq(lines, 1, Len(posts'))
       /\ stderr'[D_forward] > stderr[D_forward] =>
             /\ stdout' = stdout
             /\ \E h \in handlers :
                   /\ h \notin handlers'
                   /\ \A g \in handlers' : g.post # h.post]_vars

\* both lines were POSTed once, the POST of the first failed, the second
\* was answered, and only that answer is on standard output
NoRetryWitness ==
    /\ stderr[D_forward] = 1
    /\ handlers = {}
    /\ stdinPos = Len(stdinScript)
    /\ Bodies = <<<<"a">>, <<"b">>>>
    /\ \E i \in 1..Len(stdout) : stdout[i] = <<"r", NL>>
    /\ Cardinality({i \in 1..Len(stdout) : stdout[i] = <<"r", NL>>}) = 1

\* C16: no complete non-blank line waits in the buffer: every such line
\* that standard input has delivered has been POSTed, whether or not the
\* POST of an earlier line is still in flight and whether it came in the
\* same chunk as that line or in a later one.
SendsNotSerialized ==
    pc = "running" => NonBlank(CompleteLines(inputBuffer)) = <<>>

\* C17: a POST whose response has arrived can complete at once, whatever
\* other POSTs are in flight, and the step that completes it puts its body,
\* when not blank, at the end of standard output: the bodies are written in
\* the order in which the responses complete.
RelayInCompletionOrder ==
    pc = "running" =>
        \A h \in handlers :
            h.phase = "text" =>
                ENABLED (/\ TextResolve(h)
                         /\ stdout' = IF IsNonBlank(h.resp.body)
                                      THEN Append(stdout, h.resp.body \o <<NL>>)
                                      ELSE stdout)

\* the answer to the second POST is on standard output while the first
\* POST, issued before it, is still in flight
RelayInCompletionOrderWitness ==
    /\ Len(posts) = 2
    /\ handlers = {[post |-> 1, phase |-> "fetch", resp |-> [status |-> 0, body |-> <<>>]]}
    /\ stderr[D_forward] = 0
    /\ stdout = <<<<"r", NL>>>>

\* C18: once both servers have answered a 'calculate' request, the remote
\* worker's result and the local server's result have the same text and the
\* same isError flag.
CalculateSame ==
    (calc.remote.done /\ calc.local.done) => calc.remote.result = calc.local.result

\* C19: every failure of the listener arms exactly one timer, with the same
\* delay whatever the number of failures before it, and issues no GET; a
\* GET is issued only by the script's start and by a timer that fires, one
\* GET for each timer; and whenever the listener waits to retry, the retry
\* comes: there is no failure after which no further attempt is made.
RetryPolicy ==
    /\ [][/\ sseErrors' > sseErrors =>
                /\ timers' = Append(timers, RetryDelay)
                /\ gets' = gets
                /\ ssePc' = "waiting"
          /\ timers' # timers =>
                \/ sseErrors' = sseErrors + 1
                \/ timers' = Tail(timers) /\ gets' = gets + 1 /\ ssePc' = "connecting"
          /\ gets' # gets =>
                \/ pc = "init"
                \/ timers' = Tail(timers) /\ gets' = gets + 1
          /\ Len(timers') <= 1]_vars
    /\ (ssePc = "waiting") ~> (ssePc = "connecting")

\* a further attempt is under way after as many failures as the network and
\* the server cause, of every kind
RetryPolicyWitness ==
    /\ sseErrors = MaxRetryErrors
    /\ gets = MaxRetryErrors + 1
    /\ ssePc = "connecting"
    /\ stderr[D_sseNetwork] >= 1
    /\ stderr[D_sseStatus] >= 1
    /\ stderr[D_sseRead] >= 1

\* C20: a step in which the SSE GET is answered with a status that is not a
\* success makes the listener wait to retry with the retry timer armed and
\* the failure logged, attaches no response body, reads nothing, and leaves
\* standard output and the target URL as they are; a response is only ever
\* read when its status is a success.
NonSuccessFails ==
    [][/\ (ssePc = "connecting" /\ ssePc' # ssePc /\ sseStatus' \notin {0} \cup (200..299)) =>
             /\ ssePc' = "waiting"
             /\ timers' = Append(timers, RetryDelay)
             /\ stderr'[D_sseStatus] = stderr[D_sseStatus] + 1
             /\ sseScript' = <<>>
             /\ ssePos' = 0
             /\ sseEvents' = <<>>
             /\ stdout' = stdout
             /\ postUrl' = postUrl
       /\ ssePc' = "streaming" => sseStatus' \in 200..299]_vars

NonSuccessFailsWitness ==
    /\ sseStatus = NotOkStatus
    /\ ssePc = "waiting"
    /\ timers = <<RetryDelay>>
    /\ stderr[D_sseStatus] = 1
    /\ gets = 1
    /\ stdout = <<>>
    /\ postUrl = U_sse_mcp

\* C21: no POST body ends with a carriage return: the carriage return of a
\* line that ends with carriage return and newline is not part of the body.
NoCarriageReturn ==
    \A i \in 1..Len(posts) :
        LET body == posts[i].body
        IN  body = <<>> \/ body[Len(body)] # "\r"

\* C22: of the data lines of an event block only the first one has an
\* effect: no data line after the first of a block that was processed on
\* the current connection is among the writes to standard output.
FirstDataLineOnly ==
    \A k \in 1..Len(sseEvents) :
        LET e == RefEvent(sseEvents[k])
        IN  \A j \in 2..Len(e.data), i \in 1..Len(stdout) :
                stdout[i] # e.data[j] \o <<NL>>

\* data of an endpoint event that starts neither with "http" nor with "/"
IsOpaque(data) == ~StartsWith(data, S_http) /\ ~StartsWith(data, <<"/">>)

\* C23: a read that processes an endpoint event whose data is neither a URL
\* nor a path makes that data, as it is, the target URL.  A POST issued
\* then goes to that target and is never answered: it can only fail, and
\* the step in which it fails leaves the process running, the listener, the
\* target URL and standard output as they are, and the handler goes on with
\* the buffer.  Every POST is issued to the target URL of the moment, so
\* after a later endpoint event with a URL the POSTs go to that URL.
OpaqueEndpoint ==
    [][/\ LET eps == {k \in 1..Len(NewEvents) :
                         /\ RefEvent(NewEvents[k]).name = S_endpoint
                         /\ RefEvent(NewEvents[k]).data # <<>>}
              last == CHOOSE k \in eps : \A j \in eps : j <= k
              d == RefEvent(NewEvents[last]).data[1]
          IN  (ssePc = "streaming" /\ ssePos' > ssePos /\ eps # {} /\ IsOpaque(d))
                  => postUrl' = d
       /\ Len(posts') > Len(posts) =>
             /\ Len(posts') = Len(posts) + 1
             /\ posts'[Len(posts')].url = postUrl
       /\ \A h \in handlers' : h.phase = "text" => ~IsOpaque(posts'[h.post].url)
       /\ stderr'[D_forward] > stderr[D_forward] =>
             /\ pc' = "running"
             /\ postUrl' = postUrl
             /\ stdout' = stdout
             /\ UNCHANGED sseVars
             /\ NonBlank(CompleteLines(inputBuffer)) # <<>> =>
                   Bodies' = Append(Bodies, NonBlank(CompleteLines(inputBuffer))[1])]_vars

\* the first line was POSTed to the opaque target and failed, the message
\* that followed on the SSE response was forwarded, and the second line was
\* POSTed to the URL announced after that and answered
OpaqueEndpointWitness ==
    /\ Len(posts) = 2
    /\ posts[1].url = <<"z", "z">>
    /\ posts[2].url = U_other
    /\ stderr[D_forward] = 1
    /\ handlers = {}
    /\ stdout = <<<<"h", "i", NL>>, <<"r", NL>>>>

\* the body carries notifications/initialized messages and nothing else
OnlyNotifications(body) ==
    \A i \in 1..Len(body.msgs) : body.msgs[i].method = S_notificationsInitialized

\* C24: when the line on standard input carries only notifications/initialized
\* messages, alone or as the elements of a batch array, nothing is ever
\* written to standard output.
NotificationsSilent ==
    \A body \in RpcBodies :
        (stdinScript = BodyText(body) \o <<NL>> /\ OnlyNotifications(body))
            => stdout = <<>>

\* C25: whatever invocations of the handler are suspended when a chunk
\* arrives or a POST completes, after every step the lines POSTed so far
\* followed by the complete non-blank lines still in the buffer are exactly
\* the non-blank lines delivered, in their order: no line is lost, POSTed
\* twice or split.  A step issues at most one POST, keeps the earlier ones,
\* and gives the new POST to exactly one invocation; no two invocations
\* wait for the same POST.
ExactlyOnce ==
    [][/\ Bodies' \o NonBlank(CompleteLines(inputBuffer'))
             = NonBlank(CompleteLines(Delivered'))
       /\ Len(posts') \in {Len(posts), Len(posts) + 1}
       /\ SubSeq(posts', 1, Len(posts)) = posts
       /\ Len(posts') > Len(posts) =>
             Cardinality({h \in handlers' : h.post = Len(posts')}) = 1
       /\ \A g \in handlers', h \in handlers' : g.post = h.post => g = h]_vars

\* the three lines were POSTed once each and in order, the first POST is
\* complete, and two invocations are suspended at the same time
ExactlyOnceWitness ==
    /\ Bodies = <<<<"a">>, <<"b">>, <<"c">>>>
    /\ {h.post : h \in handlers} = {2, 3}
    /\ inputBuffer = <<>>
    /\ stdout = <<<<"r", NL>>>>

\* the POSTs in flight: issued, and the response not yet fully read or failed
InFlight == {h.post : h \in handlers}

\* C26: an invocation of the data handler has one POST in flight at a time.
\* The POSTs in flight are as many as the suspended invocations and each is
\* a POST that was issued.  The number in flight grows only when a chunk
\* starts a new invocation, and then by one; any other step that issues a
\* POST is the resumption of an invocation whose previous POST has just left
\* flight, after its response was read (phase "text") or the request failed.
PerHandlerSerialization ==
    [][/\ Cardinality(InFlight') = Cardinality(handlers')
       /\ InFlight' \subseteq 1..Len(posts')
       /\ Cardinality(InFlight') <= Cardinality(InFlight) + 1
       /\ Cardinality(InFlight') > Cardinality(InFlight) => stdinPos' > stdinPos
       /\ (Len(posts') > Len(posts) /\ stdinPos' = stdinPos) =>
             \E h \in handlers :
                 /\ h.post \notin InFlight'
                 /\ InFlight' = (InFlight \ {h.post}) \cup {Len(posts')}
                 /\ \/ h.phase = "text"
                    \/ stderr'[D_forward] = stderr[D_forward] + 1]_vars

\* one chunk brought three lines: the first POST is complete, the second is
\* the only one in flight and the third line waits in the buffer
PerHandlerSerializationWitness ==
    /\ stdinPos = 6
    /\ Bodies = <<<<"a">>, <<"b">>>>
    /\ InFlight = {2}
    /\ inputBuffer = <<"c", NL>>
    /\ stdout = <<<<"r", NL>>>>

\* the runs of connectSSE that are connecting or reading, and the armed
\* retry timers, each of which starts one
Listeners ==
    (IF ssePc \in {"connecting", "streaming"} THEN 1 ELSE 0) + Len(timers)

\* C27: at most one connection attempt, open stream or pending retry timer
\* exists.  A timer is pending exactly while the listener waits to retry,
\* and connectSSE has run once at start and once more for each failure whose
\* timer has fired, so no failure starts two listeners.
SingleListener ==
    /\ Listeners <= 1
    /\ (ssePc = "waiting") = (Len(timers) = 1)
    /\ pc = "running" => gets = sseErrors + (IF ssePc = "waiting" THEN 0 ELSE 1)

\* a second connection is open after a failure and a retry, and writes an
\* event to the output: it is the only listener
SingleListenerWitness ==
    /\ gets = 2
    /\ sseErrors = 1
    /\ ssePc = "streaming"
    /\ timers = <<>>
    /\ stdout # <<>>

\* C28: the step that ends a connection, by the end of the stream or by a
\* failure, writes nothing and leaves the target URL as it is, whatever the
\* buffer holds; outside a connection no buffered text or held byte exists;
\* within a connection the events processed and the buffer are those of the
\* text read on this connection alone, and a read has the effects of the
\* events it closes and no other.
PartialEventDropped ==
    [][/\ (ssePc = "streaming" /\ ssePc' # "streaming") =>
             /\ stdout' = stdout
             /\ postUrl' = postUrl
       /\ ssePc' # "streaming" => (sseBuffer' = <<>> /\ decoder' = <<>>)
       /\ ssePc' = "streaming" => sseEvents' \o <<sseBuffer'>> = SplitNlNl(SseText')
       /\ (ssePc = "streaming" /\ ssePc' = "streaming") =>
             [postUrl |-> postUrl', stdout |-> stdout']
                = RefEffects(NewEvents, [postUrl |-> postUrl, stdout |-> stdout])]_vars

\* the first connection read an endpoint event and the open event that
\* follows it in the same response, and failed; the second has read one
\* whole message: the output is that message alone and the buffer is empty
PartialEventDroppedWitness ==
    /\ gets = 2
    /\ stderr[D_sseRead] = 1
    /\ postUrl = <<"h", "t", "t", "p", ":", "/", "/", "h", "/", "n">>
    /\ ssePc = "streaming"
    /\ sseScript = Stream(<<B_text>>)
    /\ ssePos = Len(sseScript)
    /\ sseBuffer = <<>>
    /\ stdout = <<<<"h", "i", NL>>>>

\* the block has a data line
HasData(block) == RefEvent(block).data # <<>>

\* C29: a read of the SSE response that closes only blocks without a data
\* line, such as the keep-alive comment, writes nothing and leaves the
\* target URL as it is; a read that closes such blocks among others has the
\* output and the target URL that the others alone give, in their order.
KeepAliveInvisible ==
    [][(ssePc = "streaming" /\ ssePc' = "streaming" /\ NewEvents # <<>>) =>
          LET others == SelectSeq(NewEvents, HasData)
              st == ProcessEvents(others,
                                  [isEndpointEvent |-> FALSE, postUrl |-> postUrl,
                                   stdout |-> stdout])
          IN  /\ postUrl' = st.postUrl
              /\ stdout' = st.stdout
              /\ others = <<>> => (stdout' = stdout /\ postUrl' = postUrl)]_vars

\* a keep-alive block, then a message: the message alone is on the output
\* and the target URL is the one set at start
KeepAliveInvisibleWitness ==
    /\ ssePc = "streaming"
    /\ sseEvents = <<B_keepalive, B_text>>
    /\ stdout = <<<<"h", "i", NL>>>>
    /\ postUrl = ReplaceSseSuffix(sseUrl)

\* C30: on every connection the first event of the worker's response is the
\* endpoint event of that connection's own session URL, and once it is
\* processed the target URL is that URL; a POST issued while the connection
\* is open and its first event is processed goes to that URL and to the URL
\* of no earlier connection; the target URL never goes back to the session
\* of an earlier connection.
SessionFollowsConnection ==
    [][/\ (ssePc' = "streaming" /\ sseEvents' # <<>>) =>
             /\ RefEvent(sseEvents'[1])
                   = [name |-> S_endpoint, data |-> <<SessionUrl(gets')>>]
             /\ postUrl' = SessionUrl(gets')
       /\ (Len(posts') > Len(posts) /\ ssePc = "streaming" /\ sseEvents # <<>>) =>
             /\ posts'[Len(posts')].url = SessionUrl(gets)
             /\ \A j \in 1..(gets - 1) : posts'[Len(posts')].url # SessionUrl(j)
       /\ \A j \in 1..gets, k \in 1..gets' :
             (postUrl = SessionUrl(j) /\ postUrl' = SessionUrl(k)) => j <= k]_vars

\* the first line was POSTed to the session of the first connection, the
\* listener failed and reconnected, and the second line was POSTed to the
\* session of the second connection
SessionFollowsConnectionWitness ==
    /\ gets = 2
    /\ ssePc = "streaming"
    /\ Len(posts) = 2
    /\ posts[1].url = SessionUrl(1)
    /\ posts[2].url = SessionUrl(2)
    /\ SessionUrl(1) # SessionUrl(2)

====
